---- MODULE Spec2Model ----
(***************************************************************************)
(* Model of EsercizioABC.py: the in-memory Database (a dict of collections *)
(* behind a start/stop lifecycle) and the ProductRepository built on it.   *)
(*                                                                         *)
(* Python values are modelled as follows.                                  *)
(*   - a dict is the sequence of its <<key, value>> items in insertion     *)
(*     order, keys unique (Python dicts iterate in insertion order);       *)
(*   - None is the empty sequence and any other optional value v is <<v>>, *)
(*     so `x is None` is x = None and the value is x[1];                   *)
(*   - a Product (a dataclass, fields in declaration order) is the tuple   *)
(*     of its six field values; a Document is a dict from field names to   *)
(*     values; every field value is written as a string.                   *)
(***************************************************************************)
EXTENDS Naturals, Sequences, FiniteSets, TLC

\* Number of distinct document ids the callers use.
MaxId == 2

Ids == {ToString(i) : i \in 1..MaxId}

\* Number of distinct document ids used in direct calls of the Database.
MaxStoreId == 1

StoreIds == {ToString(i) : i \in 1..MaxStoreId}

None == <<>>
Some(v) == <<v>>

------------------------------------------------------------------------------
(* Python dict primitives *)

EmptyDict == <<>>

DictKeys(d) == {d[i][1] : i \in 1..Len(d)}

DictIndex(d, k) == CHOOSE i \in 1..Len(d) : d[i][1] = k

\* d.get(k): the value under k, or None
DictGet(d, k) == IF k \in DictKeys(d) THEN Some(d[DictIndex(d, k)][2]) ELSE None

\* d.get(k, default)
DictGetDefault(d, k, default) == IF k \in DictKeys(d) THEN d[DictIndex(d, k)][2] ELSE default

\* d[k] = v: an existing key keeps its position, a new key goes last
DictSet(d, k, v) ==
    IF k \in DictKeys(d)
    THEN [d EXCEPT ![DictIndex(d, k)] = <<k, v>>]
    ELSE Append(d, <<k, v>>)

\* del d[k]
DictDel(d, k) == SelectSeq(d, LAMBDA item : item[1] # k)

\* list(d.values())
DictValues(d) == [i \in 1..Len(d) |-> d[i][2]]

\* bool(x) for x the result of a dict.get on a collection: None and the empty
\* dict are falsy, a dict with at least one item is truthy
Truthy(x) == x # None /\ x[1] # EmptyDict

------------------------------------------------------------------------------
(* Results of calls: the database after the call, the exception raised       *)
(* ("none" when the call returned) and the value returned (None otherwise).  *)

Returned(d, v) == [data |-> d, exc |-> "none", result |-> Some(v)]
Raised(d, e) == [data |-> d, exc |-> e, result |-> None]

------------------------------------------------------------------------------
(* class Database; db is the value of self._data: None or Some(dict) *)

\* A faulty start: allocates the dict only when there is none yet
start_keeps_data(db) == IF db = None THEN Some(EmptyDict) ELSE db

start(db) == Some(EmptyDict)

stop(db) == None

\* A faulty insert: stores a new collection holding only the inserted document
insert_replaces_collection(db, collection, doc_id, doc) ==
    IF db # None
    THEN Returned(Some(DictSet(db[1], collection, DictSet(EmptyDict, doc_id, doc))), TRUE)
    ELSE Raised(db, "ConnectionError")

insert(db, collection, doc_id, doc) ==
    IF db # None
    THEN LET coll == DictSet(DictGetDefault(db[1], collection, EmptyDict), doc_id, doc)
         IN  Returned(Some(DictSet(db[1], collection, coll)), TRUE)
    ELSE Raised(db, "ConnectionError")

\* A faulty remove: reports the removal without deleting the document
remove_keeps_document(db, collection, doc_id) ==
    IF db # None
    THEN LET got == DictGet(db[1], collection)
         IN  IF got = None
             THEN Raised(db, "TypeError")
             ELSE Returned(db, doc_id \in DictKeys(got[1]))
    ELSE Raised(db, "ConnectionError")

\* line 59 evaluates `doc_id in self._data.get(collection)`: for a collection
\* that is not in the database the right-hand side is None and `in` raises
\* TypeError
remove(db, collection, doc_id) ==
    IF db # None
    THEN LET got == DictGet(db[1], collection)
         IN  IF got = None
             THEN Raised(db, "TypeError")
             ELSE IF doc_id \in DictKeys(got[1])
                  THEN LET coll == DictDel(DictGetDefault(db[1], collection, EmptyDict), doc_id)
                       IN  Returned(Some(DictSet(db[1], collection, coll)), TRUE)
                  ELSE Returned(db, FALSE)
    ELSE Raised(db, "ConnectionError")

\* A faulty fetch_collection: dict.setdefault in place of dict.get, which
\* stores the empty collection it returns
fetch_collection_creates(db, collection) ==
    IF db # None
    THEN IF collection \in DictKeys(db[1])
         THEN Returned(db, DictGetDefault(db[1], collection, EmptyDict))
         ELSE Returned(Some(DictSet(db[1], collection, EmptyDict)), EmptyDict)
    ELSE Raised(db, "ConnectionError")

\* A faulty fetch_collection: no check that the database is started
fetch_collection_ungated(db, collection) ==
    Returned(db, IF db = None THEN EmptyDict ELSE DictGetDefault(db[1], collection, EmptyDict))

fetch_collection(db, collection) ==
    IF db # None
    THEN Returned(db, DictGetDefault(db[1], collection, EmptyDict))
    ELSE Raised(db, "ConnectionError")

------------------------------------------------------------------------------
(* dataclass Product *)

ProductFields == <<"product_id", "name", "description", "price", "created", "updated">>

Names == {"Test", "Other"}

\* The products the callers pass: two names per id, the other fields fixed
\* (the description differs from both names, created differs from updated).
Product(product_id, name) == <<product_id, name, "Descr", "10.0", "t1", "t2">>

Products == {Product(i, n) : i \in Ids, n \in Names}

product_id(entity) == entity[1]

\* dataclasses.asdict(entity): a new dict, one item per field in field order
asdict(entity) == [i \in 1..Len(ProductFields) |-> <<ProductFields[i], entity[i]>>]

\* Product(**doc): accepted when the keywords are exactly the six fields
\* (none is optional), the value under each field's name becoming that field;
\* any other set of keywords raises TypeError
CanConstruct(doc) == DictKeys(doc) = {ProductFields[i] : i \in 1..Len(ProductFields)}

\* A faulty deserialisation: updated is filled from the "created" item
FromDict_mixes_timestamps(doc) ==
    [i \in 1..Len(ProductFields) |->
        DictGet(doc, IF ProductFields[i] = "updated" THEN "created" ELSE ProductFields[i])[1]]

FromDict(doc) == [i \in 1..Len(ProductFields) |-> DictGet(doc, ProductFields[i])[1]]

------------------------------------------------------------------------------
(* class ProductRepository; self.client is the database db *)

\* A faulty create: writes the document whether or not the id exists
create_overwrites(db, entity) ==
    LET ins == insert(db, "product", product_id(entity), asdict(entity))
    IN  IF ins.exc # "none" THEN Raised(ins.data, ins.exc) ELSE Returned(ins.data, entity)

\* A faulty create: writes the document before it checks for the id
create_inserts_first(db, entity) ==
    LET fetched == fetch_collection(db, "product")
    IN  IF fetched.exc # "none"
        THEN Raised(db, fetched.exc)
        ELSE LET exists == DictGet(fetched.result[1], product_id(entity))
                 ins == insert(db, "product", product_id(entity), asdict(entity))
             IN  IF ~Truthy(exists)
                 THEN Returned(ins.data, entity)
                 ELSE Raised(ins.data, "DocumentAlreadyExists")

create(db, entity) ==
    LET fetched == fetch_collection(db, "product")
    IN  IF fetched.exc # "none"
        THEN Raised(db, fetched.exc)
        ELSE LET exists == DictGet(fetched.result[1], product_id(entity))
             IN  IF ~Truthy(exists)
                 THEN LET ins == insert(db, "product", product_id(entity), asdict(entity))
                      IN  IF ins.exc # "none"
                          THEN Raised(ins.data, ins.exc)
                          ELSE Returned(ins.data, entity)
                 ELSE Raised(db, "DocumentAlreadyExists")

\* A faulty update: writes the entity under the doc_id argument
update_keyed_by_doc_id(db, doc_id, entity) ==
    LET fetched == fetch_collection(db, "product")
    IN  IF fetched.exc # "none"
        THEN Raised(db, fetched.exc)
        ELSE LET exists == DictGet(fetched.result[1], doc_id)
             IN  IF Truthy(exists)
                 THEN LET ins == insert(db, "product", doc_id, asdict(entity))
                      IN  IF ins.exc # "none"
                          THEN Raised(ins.data, ins.exc)
                          ELSE Returned(ins.data, entity)
                 ELSE Raised(db, "DocumentNotFound")

\* A faulty update: a renaming one, which drops the document under doc_id
\* when the entity carries another id
update_moves_document(db, doc_id, entity) ==
    LET fetched == fetch_collection(db, "product")
    IN  IF fetched.exc # "none"
        THEN Raised(db, fetched.exc)
        ELSE LET exists == DictGet(fetched.result[1], doc_id)
             IN  IF Truthy(exists)
                 THEN LET dropped == IF doc_id = product_id(entity)
                                     THEN db
                                     ELSE remove(db, "product", doc_id).data
                          ins == insert(dropped, "product", product_id(entity), asdict(entity))
                      IN  IF ins.exc # "none"
                          THEN Raised(ins.data, ins.exc)
                          ELSE Returned(ins.data, entity)
                 ELSE Raised(db, "DocumentNotFound")

update(db, doc_id, entity) ==
    LET fetched == fetch_collection(db, "product")
    IN  IF fetched.exc # "none"
        THEN Raised(db, fetched.exc)
        ELSE LET exists == DictGet(fetched.result[1], doc_id)
             IN  IF Truthy(exists)
                 THEN LET ins == insert(db, "product", product_id(entity), asdict(entity))
                      IN  IF ins.exc # "none"
                          THEN Raised(ins.data, ins.exc)
                          ELSE Returned(ins.data, entity)
                 ELSE Raised(db, "DocumentNotFound")

\* A faulty find_all: returns the empty list for an empty collection
find_all_returns_empty(db) ==
    LET fetched == fetch_collection(db, "product")
    IN  IF fetched.exc # "none"
        THEN Raised(db, fetched.exc)
        ELSE LET products == fetched.result[1]
             IN  IF \A i \in 1..Len(products) : CanConstruct(DictValues(products)[i])
                 THEN Returned(db, [i \in 1..Len(products) |->
                                      FromDict(DictValues(products)[i])])
                 ELSE Raised(db, "TypeError")

find_all(db) ==
    LET fetched == fetch_collection(db, "product")
    IN  IF fetched.exc # "none"
        THEN Raised(db, fetched.exc)
        ELSE LET products == fetched.result[1]
             IN  IF Len(products) = 0
                 THEN Raised(db, "DocumentNotFound")
                 ELSE IF \A i \in 1..Len(products) : CanConstruct(DictValues(products)[i])
                      THEN Returned(db, [i \in 1..Len(products) |->
                                           FromDict(DictValues(products)[i])])
                      ELSE Raised(db, "TypeError")

\* A faulty delete: removes the id from every collection of the database
delete_in_every_collection(db, doc_id) ==
    LET fetched == fetch_collection(db, "product")
    IN  IF fetched.exc # "none"
        THEN Raised(db, fetched.exc)
        ELSE LET exists == DictGet(fetched.result[1], doc_id)
                 swept == [i \in 1..Len(db[1]) |-> <<db[1][i][1], DictDel(db[1][i][2], doc_id)>>]
             IN  IF Truthy(exists)
                 THEN Returned(Some(swept), TRUE)
                 ELSE Returned(db, FALSE)

\* A faulty delete: raises DocumentNotFound for an absent id, as update does
delete_raises_when_absent(db, doc_id) ==
    LET fetched == fetch_collection(db, "product")
    IN  IF fetched.exc # "none"
        THEN Raised(db, fetched.exc)
        ELSE LET exists == DictGet(fetched.result[1], doc_id)
             IN  IF Truthy(exists)
                 THEN remove(db, "product", doc_id)
                 ELSE Raised(db, "DocumentNotFound")

delete(db, doc_id) ==
    LET fetched == fetch_collection(db, "product")
    IN  IF fetched.exc # "none"
        THEN Raised(db, fetched.exc)
        ELSE LET exists == DictGet(fetched.result[1], doc_id)
             IN  IF Truthy(exists)
                 THEN remove(db, "product", doc_id)
                 ELSE Returned(db, FALSE)

find_by_id(db, doc_id) ==
    LET fetched == fetch_collection(db, "product")
    IN  IF fetched.exc # "none"
        THEN Raised(db, fetched.exc)
        ELSE LET product_dict == DictGet(fetched.result[1], doc_id)
             IN  IF Truthy(product_dict)
                 THEN IF CanConstruct(product_dict[1])
                      THEN Returned(db, FromDict(product_dict[1]))
                      ELSE Raised(db, "TypeError")
                 ELSE Raised(db, "DocumentNotFound")

------------------------------------------------------------------------------
(* State *)

VARIABLES
    data,         \* Database._data: None, or Some(dict of collections)
    lastOp,       \* the call made by the last step: its name, arguments and outcome
    created,      \* history: per id, the Product of the last create that succeeded
                  \*   and whose document has not been deleted or wiped since, or None
    rewritten,    \* history: ids whose document a successful update wrote since then
    everCreated,  \* history: ids a create succeeded for since the last start
    everDeleted,  \* history: ids a delete returned True for since the last start
    regular       \* history: since the last start no create succeeded for an id
                  \*   created before and no update succeeded

histVars == <<created, rewritten, everCreated, everDeleted, regular>>
vars == <<data, lastOp, created, rewritten, everCreated, everDeleted, regular>>

Called(op, args, r) == [op |-> op, args |-> args, exc |-> r.exc, result |-> r.result]

Ok(call) == call.exc = "none"

\* The "product" collection as fetch_collection returns it (EmptyDict when the
\* database is not started)
ProductColl(db) == IF db = None THEN EmptyDict ELSE DictGetDefault(db[1], "product", EmptyDict)

NoHistory ==
    /\ created = [i \in Ids |-> None]
    /\ rewritten = {}
    /\ everCreated = {}
    /\ everDeleted = {}
    /\ regular = TRUE

\* Database.__init__ : _data is None
Init ==
    /\ data = None
    /\ lastOp = [op |-> "init", args |-> <<>>, exc |-> "none", result |-> None]
    /\ NoHistory

\* The id a repository call writes or deletes
Target(call) ==
    IF call.op = "create" THEN product_id(call.args[1])
    ELSE IF call.op = "update" THEN product_id(call.args[2])
    ELSE IF call.op = "delete" THEN call.args[1]
    ELSE "-"

\* created and rewritten after the call lastOp' has been made
RecordCreated ==
    LET call == lastOp'
        id == Target(call)
    IN  IF call.op \in {"start", "stop"}
        THEN /\ created' = [i \in Ids |-> None]
             /\ rewritten' = {}
        ELSE IF call.op = "create" /\ Ok(call)
        THEN /\ created' = [created EXCEPT ![id] = Some(call.args[1])]
             /\ rewritten' = rewritten \ {id}
        ELSE IF call.op = "update" /\ Ok(call)
        THEN /\ rewritten' = rewritten \cup {id}
             /\ UNCHANGED created
        ELSE IF call.op = "delete" /\ Ok(call) /\ call.result = Some(TRUE)
        THEN /\ created' = [created EXCEPT ![id] = None]
             /\ rewritten' = rewritten \ {id}
        ELSE UNCHANGED <<created, rewritten>>

\* everCreated, everDeleted and regular after the call lastOp' has been made
RecordCounts ==
    LET call == lastOp'
        id == Target(call)
    IN  IF call.op \in {"start", "stop"}
        THEN /\ everCreated' = {}
             /\ everDeleted' = {}
             /\ regular' = TRUE
        ELSE IF call.op = "create" /\ Ok(call)
        THEN /\ everCreated' = everCreated \cup {id}
             /\ regular' = (regular /\ id \notin everCreated)
             /\ UNCHANGED everDeleted
        ELSE IF call.op = "update" /\ Ok(call)
        THEN /\ regular' = FALSE
             /\ UNCHANGED <<everCreated, everDeleted>>
        ELSE IF call.op = "delete" /\ Ok(call) /\ call.result = Some(TRUE)
        THEN /\ everDeleted' = everDeleted \cup {id}
             /\ UNCHANGED <<everCreated, regular>>
        ELSE UNCHANGED <<everCreated, everDeleted, regular>>

\* What a specification records of the calls made: h = "created" keeps created
\* and rewritten, h = "counts" keeps everCreated, everDeleted and regular, and
\* the history variables a specification does not keep stay as Init sets them.
Record(h) ==
    /\ IF h = "created" THEN RecordCreated ELSE UNCHANGED <<created, rewritten>>
    /\ IF h = "counts" THEN RecordCounts ELSE UNCHANGED <<everCreated, everDeleted, regular>>

\* A step that makes the call `op(args)` with outcome r
Call(op, args, r) ==
    /\ data' = r.data
    /\ lastOp' = Called(op, args, r)

------------------------------------------------------------------------------
(* A client of the repository: start and stop the database, call the       *)
(* ProductRepository on it.                                                 *)

Start(h) ==
    /\ Call("start", <<>>, Returned(start(data), None))
    /\ Record(h)

Stop(h) ==
    /\ Call("stop", <<>>, Returned(stop(data), None))
    /\ Record(h)

Create(h) ==
    \E entity \in Products :
        /\ Call("create", <<entity>>, create(data, entity))
        /\ Record(h)

Update(h) ==
    \E doc_id \in Ids, entity \in Products :
        /\ Call("update", <<doc_id, entity>>, update(data, doc_id, entity))
        /\ Record(h)

Delete(h) ==
    \E doc_id \in Ids :
        /\ Call("delete", <<doc_id>>, delete(data, doc_id))
        /\ Record(h)

FindById(h) ==
    \E doc_id \in Ids :
        /\ Call("find_by_id", <<doc_id>>, find_by_id(data, doc_id))
        /\ Record(h)

FindAll(h) ==
    /\ Call("find_all", <<>>, find_all(data))
    /\ Record(h)

Client(h) ==
    \/ Start(h)
    \/ Stop(h)
    \/ Create(h)
    \/ Update(h)
    \/ Delete(h)
    \/ FindById(h)
    \/ FindAll(h)

\* The repository's client, no history kept
Next == Client("none")

Spec == Init /\ [][Next]_vars

\* The same client, with created and rewritten kept
NextCreated == Client("created")

SpecCreated == Init /\ [][NextCreated]_vars

\* The same client, with everCreated, everDeleted and regular kept
NextCounts == Client("counts")

SpecCounts == Init /\ [][NextCounts]_vars

------------------------------------------------------------------------------
(* A client that also calls the Database directly, on the repository's      *)
(* collection and on another one.                                           *)

Collections == {"product", "other"}

\* The documents passed to Database.insert directly: one with no fields and one
\* that is not a serialised Product
NoteDoc == << <<"note", "x">> >>

StoreDocs == {EmptyDict, NoteDoc}

Insert ==
    \E collection \in Collections, doc_id \in StoreIds, doc \in StoreDocs :
        /\ Call("insert", <<collection, doc_id, doc>>, insert(data, collection, doc_id, doc))
        /\ Record("none")

Remove ==
    \E collection \in Collections, doc_id \in StoreIds :
        /\ Call("remove", <<collection, doc_id>>, remove(data, collection, doc_id))
        /\ Record("none")

FetchCollection ==
    \E collection \in Collections :
        /\ Call("fetch_collection", <<collection>>, fetch_collection(data, collection))
        /\ Record("none")

StoreNext ==
    \/ Client("none")
    \/ Insert
    \/ Remove
    \/ FetchCollection

StoreSpec == Init /\ [][StoreNext]_vars

------------------------------------------------------------------------------
(* Properties *)

RepoOps == {"create", "update", "delete", "find_by_id", "find_all"}

StoreOps == {"insert", "remove", "fetch_collection"}

\* The keys of a dict in iteration order
KeySeq(d) == [i \in 1..Len(d) |-> d[i][1]]

\* C1: round trip. On a started store, create(P) for a P whose product_id is
\* not a key of the "product" collection succeeds and returns P, and a
\* find_by_id(P.product_id) made right after a successful create(P) returns a
\* Product equal to P in all six fields.
C1_RoundTrip ==
    [][ /\ ( /\ lastOp'.op = "create"
             /\ data # None
             /\ product_id(lastOp'.args[1]) \notin DictKeys(ProductColl(data)) )
           => /\ Ok(lastOp')
              /\ lastOp'.result = Some(lastOp'.args[1])
        /\ ( /\ lastOp.op = "create"
             /\ Ok(lastOp)
             /\ lastOp'.op = "find_by_id"
             /\ lastOp'.args[1] = product_id(lastOp.args[1]) )
           => /\ Ok(lastOp')
              /\ lastOp'.result = Some(lastOp.args[1])
              /\ \A i \in 1..Len(ProductFields) :
                    lastOp'.result[1][i] = lastOp.args[1][i]
      ]_vars

\* C1 witness: find_by_id has just returned the Product that the last create
\* of its id stored, and no update has written that id since.
C1_Witness ==
    /\ lastOp.op = "find_by_id"
    /\ Ok(lastOp)
    /\ created[lastOp.args[1]] = lastOp.result
    /\ lastOp.args[1] \notin rewritten
    /\ lastOp.result[1][2] = "Other"

\* C2 as stated: create(P2), called after a successful create(P1) of the same
\* id with no successful delete of that id in between, raises
\* DocumentAlreadyExists and the document stored under the id is P1's.
C2_Original ==
    [][ ( /\ lastOp'.op = "create"
          /\ created[product_id(lastOp'.args[1])] # None )
        => /\ lastOp'.exc = "DocumentAlreadyExists"
           /\ DictGet(ProductColl(data'), product_id(lastOp'.args[1]))
                = Some(asdict(created[product_id(lastOp'.args[1])][1]))
      ]_vars

\* C2 amended: create(P2), called after a successful create(P1) of the same id
\* with, in between, no successful delete of that id, no successful update
\* whose entity has that id and no start or stop of the database, raises
\* DocumentAlreadyExists and the document stored under the id is P1's.
C2_Uniqueness ==
    [][ ( /\ lastOp'.op = "create"
          /\ created[product_id(lastOp'.args[1])] # None
          /\ product_id(lastOp'.args[1]) \notin rewritten )
        => /\ lastOp'.exc = "DocumentAlreadyExists"
           /\ DictGet(ProductColl(data'), product_id(lastOp'.args[1]))
                = Some(asdict(created[product_id(lastOp'.args[1])][1]))
      ]_vars

\* C2 witness: a create of a different Product under an id created before and
\* not deleted or updated since has just raised DocumentAlreadyExists.
C2_Witness ==
    /\ lastOp.op = "create"
    /\ lastOp.exc = "DocumentAlreadyExists"
    /\ created[product_id(lastOp.args[1])] # None
    /\ created[product_id(lastOp.args[1])] # Some(lastOp.args[1])
    /\ product_id(lastOp.args[1]) \notin rewritten

\* C3: delete asymmetry. On a started store delete(id) raises nothing; for an
\* id that is not a key of the "product" collection it returns False and the
\* database is unchanged; for an id that is a key it returns True, that key is
\* gone, every other document is stored as before in the same order, and a
\* find_by_id(id) made right after raises DocumentNotFound.
C3_DeleteAsymmetry ==
    [][ /\ ( /\ lastOp'.op = "delete"
             /\ data # None )
           => LET id == lastOp'.args[1]
                  before == ProductColl(data)
                  after == ProductColl(data')
              IN  /\ Ok(lastOp')
                  /\ IF id \notin DictKeys(before)
                     THEN /\ lastOp'.result = Some(FALSE)
                          /\ data' = data
                     ELSE /\ lastOp'.result = Some(TRUE)
                          /\ DictKeys(after) = DictKeys(before) \ {id}
                          /\ \A k \in DictKeys(after) : DictGet(after, k) = DictGet(before, k)
                          /\ KeySeq(after) = SelectSeq(KeySeq(before), LAMBDA k : k # id)
        /\ ( /\ lastOp.op = "delete"
             /\ lastOp.result = Some(TRUE)
             /\ lastOp'.op = "find_by_id"
             /\ lastOp'.args[1] = lastOp.args[1] )
           => lastOp'.exc = "DocumentNotFound"
      ]_vars

\* C3 witness: delete has just returned True and another document is still
\* stored.
C3_Witness ==
    /\ lastOp.op = "delete"
    /\ lastOp.result = Some(TRUE)
    /\ lastOp.args[1] \notin DictKeys(ProductColl(data))
    /\ Len(ProductColl(data)) >= 1

\* C4: count invariant. On a store started and then used only for creates of
\* pairwise distinct ids, deletes and finds, with N creates that succeeded and
\* M deletes that returned True, find_all raises DocumentNotFound when
\* N - M = 0 and otherwise returns N - M Products, one per id created and not
\* deleted.
C4_CountInvariant ==
    ( /\ lastOp.op = "find_all"
      /\ data # None
      /\ regular )
    => LET n == Cardinality(everCreated)
           m == Cardinality(everDeleted)
       IN  /\ m <= n
           /\ IF n - m = 0
              THEN lastOp.exc = "DocumentNotFound"
              ELSE /\ Ok(lastOp)
                   /\ Len(lastOp.result[1]) = n - m
                   /\ {product_id(lastOp.result[1][i]) : i \in 1..Len(lastOp.result[1])}
                        = everCreated \ everDeleted

\* C4 witness: find_all has just returned one Product after two creates of
\* distinct ids and one delete.
C4_Witness ==
    /\ lastOp.op = "find_all"
    /\ regular
    /\ Cardinality(everCreated) = 2
    /\ Cardinality(everDeleted) = 1
    /\ Ok(lastOp)
    /\ Len(lastOp.result[1]) = 1

\* C5 as stated: on a started store find_by_id(id) raises DocumentNotFound for
\* an id no create has succeeded for, and returns a Product only for an id that
\* a create succeeded for and no delete has removed since.
C5_NotFoundLaw ==
    ( /\ lastOp.op = "find_by_id"
      /\ data # None )
    => /\ created[lastOp.args[1]] = None => lastOp.exc = "DocumentNotFound"
       /\ Ok(lastOp) => created[lastOp.args[1]] # None

\* C6: find_all on a started store raises DocumentNotFound exactly when the
\* "product" collection holds no document (whether or not the collection is in
\* the database); otherwise it returns one Product per stored document, the
\* i-th Product being the i-th document of the collection, whose keys are in
\* insertion order: a step keeps the remaining keys in their order and puts a
\* new key last.
C6_FindAll ==
    [][ /\ ( /\ lastOp'.op = "find_all"
             /\ data' # None )
           => LET coll == ProductColl(data')
              IN  /\ lastOp'.exc = "DocumentNotFound" <=> Len(coll) = 0
                  /\ Len(coll) # 0
                     => /\ Ok(lastOp')
                        /\ Len(lastOp'.result[1]) = Len(coll)
                        /\ \A i \in 1..Len(coll) :
                              /\ product_id(lastOp'.result[1][i]) = coll[i][1]
                              /\ asdict(lastOp'.result[1][i]) = coll[i][2]
        /\ LET old == KeySeq(ProductColl(data))
               new == KeySeq(ProductColl(data'))
               kept == SelectSeq(old, LAMBDA k : k \in DictKeys(ProductColl(data')))
           IN  \/ new = kept
               \/ \E k \in Ids : k \notin DictKeys(ProductColl(data)) /\ new = Append(kept, k)
      ]_vars

\* C6 witness: find_all has just raised DocumentNotFound on a "product"
\* collection that is in the database and has lost all its documents.
C6_Witness ==
    /\ lastOp.op = "find_all"
    /\ lastOp.exc = "DocumentNotFound"
    /\ data # None
    /\ DictGet(data[1], "product") = Some(EmptyDict)

\* C7: lifecycle gate. While the database is not started, every Database call
\* (insert, remove, fetch_collection) and every ProductRepository call raises
\* ConnectionError and the database stays not started.
C7_LifecycleGate ==
    [][ ( /\ data = None
          /\ lastOp'.op \in StoreOps \cup RepoOps )
        => /\ lastOp'.exc = "ConnectionError"
           /\ data' = None
      ]_vars

\* C7 witness: a repository call has just raised ConnectionError after a stop.
C7_Witness ==
    /\ data = None
    /\ lastOp.op = "update"
    /\ lastOp.exc = "ConnectionError"

\* C8 as stated: on a started database remove(collection, doc_id) raises
\* nothing, for any collection name; it returns True and the document is gone
\* when doc_id is a key of the collection (a collection that is not in the
\* database has no keys), and otherwise returns False and leaves the database
\* unchanged.
C8_RemoveNeverRaises ==
    [][ ( /\ lastOp'.op = "remove"
          /\ data # None )
        => LET collection == lastOp'.args[1]
               doc_id == lastOp'.args[2]
               before == DictGetDefault(data[1], collection, EmptyDict)
           IN  /\ Ok(lastOp')
               /\ IF doc_id \in DictKeys(before)
                  THEN /\ lastOp'.result = Some(TRUE)
                       /\ doc_id \notin DictKeys(DictGetDefault(data'[1], collection, EmptyDict))
                  ELSE /\ lastOp'.result = Some(FALSE)
                       /\ data' = data
      ]_vars

\* C9: a ProductRepository call that raises leaves the database as it was.
C9_NoPartialMutation ==
    [][ ( /\ lastOp'.op \in RepoOps
          /\ ~Ok(lastOp') )
        => data' = data
      ]_vars

\* C9 witness: create has just raised DocumentAlreadyExists for a Product that
\* differs from the stored one.
C9_Witness ==
    /\ lastOp.op = "create"
    /\ lastOp.exc = "DocumentAlreadyExists"
    /\ DictGet(ProductColl(data), product_id(lastOp.args[1])) # Some(asdict(lastOp.args[1]))

\* C10: key invariant. Every document of the "product" collection is stored
\* under the key that is its own product_id field.
C10_KeyInvariant ==
    \A i \in 1..Len(ProductColl(data)) :
        DictGet(ProductColl(data)[i][2], "product_id") = Some(ProductColl(data)[i][1])

\* C10 witness: an update whose id argument differs from its entity's
\* product_id has just succeeded and added a document.
C10_Witness ==
    /\ lastOp.op = "update"
    /\ Ok(lastOp)
    /\ lastOp.args[1] # product_id(lastOp.args[2])
    /\ Len(ProductColl(data)) = 2

\* C11: start() on a database in any state (not started, started and empty,
\* started and holding documents) leaves it started with no collection at
\* all, and the read made right after sees nothing of what was stored before:
\* fetch_collection returns the empty collection, find_by_id and find_all
\* raise DocumentNotFound.
C11_StartWipes ==
    [][ /\ lastOp'.op = "start"
           => /\ data' = Some(EmptyDict)
              /\ Ok(lastOp')
        /\ ( /\ lastOp.op = "start"
             /\ lastOp'.op = "fetch_collection" )
           => lastOp'.result = Some(EmptyDict)
        /\ ( /\ lastOp.op = "start"
             /\ lastOp'.op \in {"find_by_id", "find_all"} )
           => lastOp'.exc = "DocumentNotFound"
      ]_vars

\* C11 witness: start has just been called and the database is started and
\* empty.
C11_Witness ==
    /\ lastOp.op = "start"
    /\ data # None
    /\ Len(data[1]) = 0


\* The collection of that name as a read finds it (empty when it is not in the
\* database)
CollOf(db, collection) == DictGetDefault(db[1], collection, EmptyDict)

\* C12: on a started database insert(collection, doc_id, data) returns True
\* and is an upsert: afterwards the collection is in the database and holds
\* data under doc_id (a document stored there before is replaced), every other
\* document of every collection is stored as before, the set of the other
\* collections is the same, and a fetch_collection(collection) made right
\* after returns a collection with data under doc_id.
C12_InsertUpsert ==
    [][ /\ ( /\ lastOp'.op = "insert"
             /\ data # None )
           => LET collection == lastOp'.args[1]
                  doc_id == lastOp'.args[2]
                  doc == lastOp'.args[3]
              IN  /\ Ok(lastOp')
                  /\ lastOp'.result = Some(TRUE)
                  /\ data' # None
                  /\ DictKeys(data'[1]) = DictKeys(data[1]) \cup {collection}
                  /\ DictGet(CollOf(data', collection), doc_id) = Some(doc)
                  /\ DictKeys(CollOf(data', collection))
                       = DictKeys(CollOf(data, collection)) \cup {doc_id}
                  /\ \A c \in Collections, k \in Ids \cup StoreIds :
                        (c # collection \/ k # doc_id)
                        => DictGet(CollOf(data', c), k) = DictGet(CollOf(data, c), k)
        /\ ( /\ lastOp.op = "insert"
             /\ Ok(lastOp)
             /\ lastOp'.op = "fetch_collection"
             /\ lastOp'.args[1] = lastOp.args[1] )
           => /\ Ok(lastOp')
              /\ DictGet(lastOp'.result[1], lastOp.args[2]) = Some(lastOp.args[3])
      ]_vars

\* C12 witness: an insert has just replaced a serialised Product by another
\* document while a second document of the collection stays.
C12_Witness ==
    /\ lastOp.op = "insert"
    /\ Ok(lastOp)
    /\ lastOp.args[1] = "product"
    /\ lastOp.args[3] = NoteDoc
    /\ Len(ProductColl(data)) = 2
    /\ ProductColl(data)[1][1] = lastOp.args[2]
    /\ CanConstruct(ProductColl(data)[2][2])


\* C13: on a started store update(id, E) returns (E) exactly when id is a key
\* of the "product" collection and raises DocumentNotFound otherwise, leaving
\* the store unchanged. When it returns, the document under E.product_id is
\* the serialised E and every other document is stored as before: with
\* E.product_id # id the document under id is untouched and the collection
\* has a document under E.product_id (one more document if that key was
\* absent, the same number if it was overwritten); with E.product_id = id the
\* number of documents is the same.
C13_Update ==
    [][ ( /\ lastOp'.op = "update"
          /\ data # None )
        => LET id == lastOp'.args[1]
               E == lastOp'.args[2]
               before == ProductColl(data)
               after == ProductColl(data')
           IN  /\ Ok(lastOp') <=> id \in DictKeys(before)
               /\ ~Ok(lastOp') => (lastOp'.exc = "DocumentNotFound" /\ data' = data)
               /\ Ok(lastOp')
                  => /\ lastOp'.result = Some(E)
                     /\ DictGet(after, product_id(E)) = Some(asdict(E))
                     /\ \A k \in Ids \ {product_id(E)} : DictGet(after, k) = DictGet(before, k)
                     /\ product_id(E) # id => DictGet(after, id) = DictGet(before, id)
                     /\ Len(after) = IF product_id(E) \in DictKeys(before)
                                     THEN Len(before)
                                     ELSE Len(before) + 1
                     /\ product_id(E) = id => Len(after) = Len(before)
      ]_vars

\* C13 witness: an update whose entity carries another id than its id
\* argument has just returned; the document under the id argument is not the
\* entity's and the entity is stored under its own id.
C13_Witness ==
    /\ lastOp.op = "update"
    /\ Ok(lastOp)
    /\ product_id(lastOp.args[2]) # lastOp.args[1]
    /\ DictGet(ProductColl(data), lastOp.args[1]) # None
    /\ DictGet(ProductColl(data), lastOp.args[1])[1][2][2] # lastOp.args[2][2]
    /\ DictGet(ProductColl(data), product_id(lastOp.args[2])) = Some(asdict(lastOp.args[2]))


\* C14 as stated: in every state of the "product" collection reachable through
\* Database.insert and the repository (a document with no fields included), on
\* a started store create(P) raises DocumentAlreadyExists if and only if
\* P.product_id is a key of the collection, delete(id) returns True if and
\* only if id is a key, and update(id, E) and find_by_id(id) raise
\* DocumentNotFound if and only if id is not a key.
C14_ExistenceIsKeyPresence ==
    [][ ( /\ lastOp'.op \in {"create", "delete", "update", "find_by_id"}
          /\ data # None )
        => LET call == lastOp'
               id == IF call.op = "create" THEN product_id(call.args[1]) ELSE call.args[1]
               present == id \in DictKeys(ProductColl(data))
           IN  /\ call.op = "create" => (call.exc = "DocumentAlreadyExists" <=> present)
               /\ call.op = "delete" => (call.result = Some(TRUE) <=> present)
               /\ call.op \in {"update", "find_by_id"}
                  => (call.exc = "DocumentNotFound" <=> ~present)
      ]_vars


\* The database without its "product" collection
WithoutProduct(db) == IF db = None THEN None ELSE Some(DictDel(db[1], "product"))

\* The database with nothing but its "product" collection
OnlyProduct(db) ==
    IF db = None THEN None ELSE Some(SelectSeq(db[1], LAMBDA item : item[1] = "product"))

\* The outcome of the repository call `call` on the database db
Outcome(db, call) ==
    IF call.op = "create" THEN create(db, call.args[1])
    ELSE IF call.op = "update" THEN update(db, call.args[1], call.args[2])
    ELSE IF call.op = "delete" THEN delete(db, call.args[1])
    ELSE IF call.op = "find_by_id" THEN find_by_id(db, call.args[1])
    ELSE find_all(db)

\* C15: frame. A ProductRepository call leaves every collection other than
\* "product" in the database exactly as it was (the same collections with the
\* same documents in the same order), and it reads only "product": its
\* outcome and the "product" collection it leaves are what the same call
\* yields on a database holding the "product" collection alone.
C15_Frame ==
    [][ ( /\ lastOp'.op \in RepoOps
          /\ data # None )
        => /\ data' # None
           /\ WithoutProduct(data') = WithoutProduct(data)
           /\ LET alone == Outcome(OnlyProduct(data), lastOp')
              IN  /\ lastOp'.exc = alone.exc
                  /\ lastOp'.result = alone.result
                  /\ ProductColl(data') = ProductColl(alone.data)
      ]_vars

\* C15 witness: a delete has just removed a document of "product" whose id is
\* also the key of a document in the collection "other", which is still there.
C15_Witness ==
    /\ lastOp.op = "delete"
    /\ lastOp.result = Some(TRUE)
    /\ data # None
    /\ DictGet(CollOf(data, "other"), lastOp.args[1]) = Some(NoteDoc)


\* C16: on a started database fetch_collection(collection) raises nothing and
\* leaves the database as it was; it returns the collection stored under that
\* name, and for a name that is not in the database the empty collection,
\* without adding the name to the database. find_by_id, find_all and a delete
\* that returns False leave the database as it was too, whatever they return
\* or raise.
C16_ReadsChangeNothing ==
    [][ /\ ( /\ lastOp'.op = "fetch_collection"
             /\ data # None )
           => LET collection == lastOp'.args[1]
              IN  /\ Ok(lastOp')
                  /\ data' = data
                  /\ collection \in DictKeys(data[1])
                     => Some(lastOp'.result[1]) = DictGet(data[1], collection)
                  /\ collection \notin DictKeys(data[1])
                     => /\ lastOp'.result = Some(EmptyDict)
                        /\ collection \notin DictKeys(data'[1])
        /\ ( /\ data # None
             /\ \/ lastOp'.op \in {"find_by_id", "find_all"}
                \/ lastOp'.op = "delete" /\ lastOp'.result = Some(FALSE) )
           => data' = data
      ]_vars

\* C16 witness: fetch_collection has just returned the empty collection for a
\* name that is not in the database, which holds another collection.
C16_Witness ==
    /\ lastOp.op = "fetch_collection"
    /\ Ok(lastOp)
    /\ lastOp.result = Some(EmptyDict)
    /\ data # None
    /\ lastOp.args[1] \notin DictKeys(data[1])
    /\ Len(data[1]) = 1

====
